---- MODULE Spec2Model ----
(***************************************************************************)
(* NREL/ROSCO_toolbox.                                                     *)
(*                                                                         *)
(*   Sim.sim_ws_series   (src/WTC_toolbox/sim.py)         -- Spec          *)
(*   run_testing         (src/ROSCO_testing/run_Testing.py) -- SpecRT      *)
(*                                                                         *)
(* Floating point numbers are modelled in fixed point: a real x is the     *)
(* integer x * Scale, products and quotients are rescaled (FxMul, FxDiv).  *)
(* numpy arrays are functions on 0 .. n-1, indexed as Python indexes them  *)
(* (a negative index counts from the end, an index out of range raises     *)
(* IndexError).  t_array is an array of floats, as the docstring of        *)
(* sim_ws_series says, so every np.ones_like(t_array) is a float array.    *)
(* The plots of lines 123-141 are left out: they read the saved series     *)
(* and change nothing.                                                     *)
(***************************************************************************)
EXTENDS Integers, Sequences, FiniteSets, TLC

\* ------------------------------------------------------------ bounds
\* The longest time array.
MaxN == 3
\* The longest list of binaries / DISCON files handed to run_testing.
MaxFiles == 2
\* Fixed-point resolution: one unit is 1/Scale.
Scale == 100

\* ------------------------------------------------------------ numbers
Fx(n) == n * Scale
FxMul(a, b) == (a * b) \div Scale
FxDiv(a, b) == (a * Scale) \div b

\* np.pi
pi == FxDiv(Fx(355), Fx(113))
\* rpm2RadSec = 2.0*(np.pi)/60.0
rpm2RadSec == FxDiv(FxMul(Fx(2), pi), Fx(60))
\* self.gb_eff = 0.95, self.gen_eff = 0.95
gb_eff == FxDiv(Fx(95), Fx(100))
gen_eff == FxDiv(Fx(95), Fx(100))

\* numpy's float64 division: dividing by zero is no exception, it gives
\* inf (nan for 0/0) and a RuntimeWarning.
NpDiv(a, b) ==
    IF b = 0
    THEN [kind |-> IF a = 0 THEN "nan" ELSE "inf", val |-> 0]
    ELSE [kind |-> "finite", val |-> FxDiv(a, b)]

\* ------------------------------------------------------------ arrays
Length(a) == Cardinality(DOMAIN a)
\* a[k] is defined for -len <= k < len
InRange(a, k) == -Length(a) <= k /\ k < Length(a)
PyIdx(a, k) == IF k < 0 THEN k + Length(a) ELSE k
Get(a, k) == a[PyIdx(a, k)]
Put(a, k, v) == [a EXCEPT ![PyIdx(a, k)] = v]
\* np.ones_like(a) * v
OnesLikeTimes(a, v) == [k \in DOMAIN a |-> FxMul(Fx(1), v)]
Empty == [k \in {} |-> 0]

\* ------------------------------------------------------------ inputs
\* The turbine handed to Sim.__init__ (self.turbine); read only.
turbine ==
    [TurbineName |-> "toy", RotorRad |-> Fx(2), Ng |-> Fx(3),
     J |-> Fx(50), rho |-> Fx(1)]

\* Time arrays t0 + k*step, of every length up to MaxN (an empty one too).
TimeStepSet == {2}
TimeArrays ==
    {[k \in 0 .. n - 1 |-> Fx(k * st)] : n \in 0 .. MaxN, st \in TimeStepSet}
\* Wind arrays: every length up to MaxN + 1, whatever the time array's.
WindSet == {Fx(0), Fx(8)}
WindArrays ==
    UNION {[0 .. m - 1 -> WindSet] : m \in 0 .. MaxN + 1}
RpmInitSet == {Fx(0), Fx(10)}
PitchInitSet == {Fx(0), Fx(5)}

\* What the aerodynamic collaborators can answer.
CqSet == {Fx(0), FxDiv(Fx(1), Fx(10))}

\* The controller bridge, controller_int.call_controller: the status the
\* controller reports and the commands it gives.  A nonzero status is
\* surfaced as ControllerFaultError.
call_controller(t, dt_, pitch, genspeed, rotspeed, ws_) ==
    {[status |-> 0, torque |-> Fx(4), pitch |-> Fx(1)],
     [status |-> 0, torque |-> Fx(0), pitch |-> Fx(2)],
     [status |-> 1, torque |-> Fx(0), pitch |-> Fx(0)]}

\* turbine.cc_rotor.evaluate(...): it raises, or answers a Cq.
evaluate(ws_, rpm, pitch) ==
    {[raised |-> TRUE, cq |-> Fx(0)]} \cup
    {[raised |-> FALSE, cq |-> c] : c \in CqSet}

\* turbine.Cq.interp_surface(pitch, tsr)
interp_surface(pitch, tsr) == CqSet

\* ------------------------------------------------------------ state
VARIABLES
    \* sim_ws_series: where it is, and the exception it ended with
    pc, err,
    \* its arguments
    t_array, ws_array, rotor_rpm_init, init_pitch,
    \* its locals
    dt, use_interpolated, i, ws, cq,
    \* the output arrays
    bld_pitch, rot_speed, gen_speed, aero_torque, gen_torque, gen_power,
    \* the attributes of self saved at the end of the run
    stored,
    \* how often the run released controller_int's handle (sim.py holds
    \* controller_int from __init__ on and has no statement releasing it)
    released,
    \* the calls made to the aerodynamic source and to the controller, and
    \* the order of the array writes and controller calls of the loop
    aero_calls, ctrl_calls, trace,
    \* run_testing: where it is, its arguments, the exception it ended
    \* with, the attributes set on rt and the routines of rt it invoked
    rt_pc, rt_err, turbine2test, testtype, rosco_binaries, discon_files,
    rt, invoked

inputs == <<t_array, ws_array, rotor_rpm_init, init_pitch>>
locals == <<dt, use_interpolated, i, ws, cq>>
series == <<bld_pitch, rot_speed, gen_speed, aero_torque, gen_torque, gen_power>>
logs == <<aero_calls, ctrl_calls, trace>>
simvars == <<pc, err, inputs, locals, series, stored, released, logs>>
rtvars ==
    <<rt_pc, rt_err, turbine2test, testtype, rosco_binaries, discon_files,
      rt, invoked>>
vars == <<simvars, rtvars>>

\* ------------------------------------------------------------ sim.py
\* The call has been made and nothing of it has run.
SimInit ==
    /\ pc = "setup"
    /\ err = "none"
    /\ t_array \in TimeArrays
    /\ ws_array \in WindArrays
    /\ rotor_rpm_init \in RpmInitSet
    /\ init_pitch \in PitchInitSet
    /\ dt = 0 /\ use_interpolated = FALSE /\ i = 0 /\ ws = 0 /\ cq = 0
    /\ bld_pitch = Empty /\ rot_speed = Empty /\ gen_speed = Empty
    /\ aero_torque = Empty /\ gen_torque = Empty /\ gen_power = Empty
    /\ stored = [saved |-> FALSE]
    /\ released = 0
    /\ aero_calls = <<>> /\ ctrl_calls = <<>> /\ trace = <<>>

\* No call of sim_ws_series.
SimIdle ==
    /\ pc = "idle"
    /\ err = "none"
    /\ t_array = Empty /\ ws_array = Empty
    /\ rotor_rpm_init = 0 /\ init_pitch = 0
    /\ dt = 0 /\ use_interpolated = FALSE /\ i = 0 /\ ws = 0 /\ cq = 0
    /\ bld_pitch = Empty /\ rot_speed = Empty /\ gen_speed = Empty
    /\ aero_torque = Empty /\ gen_torque = Empty /\ gen_power = Empty
    /\ stored = [saved |-> FALSE]
    /\ released = 0
    /\ aero_calls = <<>> /\ ctrl_calls = <<>> /\ trace = <<>>

\* An exception leaves sim_ws_series: nothing catches it.
Raise(e) ==
    /\ pc' = "raised"
    /\ err' = e

\* Lines 61-72: dt, and the output arrays filled with their initial values.
Setup ==
    /\ UNCHANGED rtvars
    /\ pc = "setup"
    /\ IF ~(InRange(t_array, 1) /\ InRange(t_array, 0))
       THEN /\ Raise("IndexError")
            /\ UNCHANGED <<dt, series>>
       ELSE /\ dt' = Get(t_array, 1) - Get(t_array, 0)
            /\ bld_pitch' = OnesLikeTimes(t_array, init_pitch)
            /\ rot_speed' =
                 OnesLikeTimes(t_array, FxMul(rotor_rpm_init, rpm2RadSec))
            /\ gen_speed' =
                 OnesLikeTimes(t_array, FxMul(rotor_rpm_init, turbine.Ng))
            /\ aero_torque' = OnesLikeTimes(t_array, Fx(1000))
            /\ gen_torque' = OnesLikeTimes(t_array, Fx(1))
            /\ gen_power' = OnesLikeTimes(t_array, Fx(0))
            /\ pc' = "test_cc"
            /\ err' = err
    /\ UNCHANGED <<inputs, use_interpolated, i, ws, cq, stored, released, logs>>

\* Lines 76-83: one trial of the evaluator; whatever the try block raises
\* (ws_array[1] out of range too) selects the interpolated tables.  What the
\* trial returns is dropped.
TestCcBlade ==
    /\ UNCHANGED rtvars
    /\ pc = "test_cc"
    /\ IF ~InRange(ws_array, 1)
       THEN /\ use_interpolated' = TRUE
            /\ UNCHANGED aero_calls
       ELSE \E r \in evaluate(Get(ws_array, 1),
                              FxDiv(Get(rot_speed, 0), rpm2RadSec),
                              Get(bld_pitch, 0)) :
              /\ use_interpolated' = r.raised
              /\ aero_calls' = Append(aero_calls,
                   [op |-> "evaluate", step |-> 0, raised |-> r.raised,
                    cq |-> Fx(0), ws |-> Get(ws_array, 1),
                    rot |-> FxDiv(Get(rot_speed, 0), rpm2RadSec),
                    pitch |-> Get(bld_pitch, 0),
                    tsr |-> [kind |-> "none", val |-> 0]])
    /\ pc' = "loop"
    /\ UNCHANGED <<err, inputs, dt, i, ws, cq, series, stored, released,
                   ctrl_calls, trace>>

\* Line 103: 0.5 * rho * (pi * R**2) * cq * R * ws**2
AeroTorque(cq_, ws_) ==
    LET R == turbine.RotorRad
    IN  FxMul(FxMul(FxMul(FxMul(FxMul(Fx(1) \div 2, turbine.rho),
                                FxMul(pi, FxMul(R, R))),
                          cq_),
                    R),
              FxMul(ws_, ws_))

\* Line 104: rot_prev + (dt/J)*(aero * gb_eff - Ng * gen_torque_prev)
RotSpeedNext(rot_prev, aero, gen_torque_prev, dt_) ==
    rot_prev + FxMul(FxDiv(dt_, turbine.J),
                     FxMul(aero, gb_eff) - FxMul(turbine.Ng, gen_torque_prev))

\* Line 105: rot_speed[i] * Ng
GenSpeed(rot) == FxMul(rot, turbine.Ng)

\* Line 111: gen_speed[i] * np.pi/30.0 * gen_torque[i] * gen_eff
GenPower(gen, torque) ==
    FxMul(FxMul(FxDiv(FxMul(gen, pi), Fx(30)), torque), gen_eff)

\* (mutant) index 0 is not skipped.
SkipFirst_Never(k) == FALSE

\* Lines 87-88: the first index is skipped.
SkipFirst(k) == k = 0

\* (mutant) the loop ends one index early.
LoopHead_StopsEarly ==
    /\ UNCHANGED rtvars
    /\ pc = "loop"
    /\ IF i >= Length(t_array) - 1
       THEN pc' = "save" /\ i' = i
       ELSE IF SkipFirst(i)
            THEN pc' = "loop" /\ i' = i + 1
            ELSE pc' = "load_cq" /\ i' = i
    /\ UNCHANGED <<err, inputs, dt, use_interpolated, ws, cq, series, stored,
                   released, logs>>

\* Lines 86-88: enumerate(t_array) gives the next index, or the loop ends.
LoopHead ==
    /\ UNCHANGED rtvars
    /\ pc = "loop"
    /\ IF i >= Length(t_array)
       THEN pc' = "save" /\ i' = i
       ELSE IF SkipFirst(i)
            THEN pc' = "loop" /\ i' = i + 1
            ELSE pc' = "load_cq" /\ i' = i
    /\ UNCHANGED <<err, inputs, dt, use_interpolated, ws, cq, series, stored,
                   released, logs>>

\* (mutant) every step tries the evaluator and falls back when it raises.
LoadCq_Retry ==
    /\ UNCHANGED rtvars
    /\ pc = "load_cq"
    /\ IF ~InRange(ws_array, i)
       THEN /\ Raise("IndexError")
            /\ UNCHANGED <<ws, cq, aero_calls, trace>>
       ELSE LET w == Get(ws_array, i)
                rot == Get(rot_speed, i - 1)
                pitch == Get(bld_pitch, i - 1)
                tsr == NpDiv(FxMul(rot, turbine.RotorRad), w)
            IN  /\ ws' = w
                /\ \E r \in evaluate(w, FxDiv(rot, rpm2RadSec), pitch) :
                     \E c \in interp_surface(pitch, tsr) :
                       /\ aero_calls' =
                            IF r.raised
                            THEN aero_calls \o
                                   <<[op |-> "evaluate", step |-> i,
                                      raised |-> TRUE, cq |-> r.cq, ws |-> w,
                                      rot |-> FxDiv(rot, rpm2RadSec),
                                      pitch |-> pitch,
                                      tsr |-> [kind |-> "none", val |-> 0]],
                                     [op |-> "interp_surface", step |-> i,
                                      raised |-> FALSE, cq |-> c, ws |-> w,
                                      rot |-> rot, pitch |-> pitch,
                                      tsr |-> tsr]>>
                            ELSE Append(aero_calls,
                                   [op |-> "evaluate", step |-> i,
                                    raised |-> FALSE, cq |-> r.cq, ws |-> w,
                                    rot |-> FxDiv(rot, rpm2RadSec),
                                    pitch |-> pitch,
                                    tsr |-> [kind |-> "none", val |-> 0]])
                       /\ cq' = IF r.raised THEN c ELSE r.cq
                       /\ trace' = Append(trace, <<"cq", i>>)
                       /\ pc' = "update"
                       /\ err' = err
    /\ UNCHANGED <<inputs, dt, use_interpolated, i, series, stored, released,
                   ctrl_calls>>

\* Lines 89-99: the wind speed of this index, and Cq from the source that
\* was selected before the loop.
LoadCq ==
    /\ UNCHANGED rtvars
    /\ pc = "load_cq"
    /\ IF ~InRange(ws_array, i)
       THEN /\ Raise("IndexError")
            /\ UNCHANGED <<ws, cq, aero_calls, trace>>
       ELSE LET w == Get(ws_array, i)
                rot == Get(rot_speed, i - 1)
                pitch == Get(bld_pitch, i - 1)
            IN  /\ ws' = w
                /\ IF use_interpolated
                   THEN LET tsr == NpDiv(FxMul(rot, turbine.RotorRad), w)
                        IN  \E c \in interp_surface(pitch, tsr) :
                              /\ cq' = c
                              /\ aero_calls' = Append(aero_calls,
                                   [op |-> "interp_surface", step |-> i,
                                    raised |-> FALSE, cq |-> c, ws |-> w,
                                    rot |-> rot, pitch |-> pitch,
                                    tsr |-> tsr])
                              /\ trace' = Append(trace, <<"cq", i>>)
                              /\ pc' = "update"
                              /\ err' = err
                   ELSE \E r \in evaluate(w, FxDiv(rot, rpm2RadSec), pitch) :
                              /\ aero_calls' = Append(aero_calls,
                                   [op |-> "evaluate", step |-> i,
                                    raised |-> r.raised, cq |-> r.cq,
                                    ws |-> w,
                                    rot |-> FxDiv(rot, rpm2RadSec),
                                    pitch |-> pitch,
                                    tsr |-> [kind |-> "none", val |-> 0]])
                              /\ IF r.raised
                                 THEN /\ Raise("AeroEvaluationError")
                                      /\ UNCHANGED <<cq, trace>>
                                 ELSE /\ cq' = r.cq
                                      /\ trace' = Append(trace, <<"cq", i>>)
                                      /\ pc' = "update"
                                      /\ err' = err
    /\ UNCHANGED <<inputs, dt, use_interpolated, i, series, stored, released,
                   ctrl_calls>>

\* (mutant) the rotor speed is integrated with the generator torque of the
\* current index, not of the previous one.
UpdateState_CurrentTorque ==
    /\ UNCHANGED rtvars
    /\ pc = "update"
    /\ LET aero == AeroTorque(cq, ws)
           rot == RotSpeedNext(Get(rot_speed, i - 1), aero,
                               Get(gen_torque, i), dt)
       IN  /\ aero_torque' = Put(aero_torque, i, aero)
           /\ rot_speed' = Put(rot_speed, i, rot)
           /\ gen_speed' = Put(gen_speed, i, GenSpeed(rot))
    /\ trace' = trace \o <<<<"aero_torque", i>>, <<"rot_speed", i>>,
                           <<"gen_speed", i>>>>
    /\ pc' = "call"
    /\ UNCHANGED <<err, inputs, locals, bld_pitch, gen_torque, gen_power,
                   stored, released, aero_calls, ctrl_calls>>

\* Lines 103-105: the 1DOF model.
UpdateState ==
    /\ UNCHANGED rtvars
    /\ pc = "update"
    /\ LET aero == AeroTorque(cq, ws)
           rot == RotSpeedNext(Get(rot_speed, i - 1), aero,
                               Get(gen_torque, i - 1), dt)
       IN  /\ aero_torque' = Put(aero_torque, i, aero)
           /\ rot_speed' = Put(rot_speed, i, rot)
           /\ gen_speed' = Put(gen_speed, i, GenSpeed(rot))
    /\ trace' = trace \o <<<<"aero_torque", i>>, <<"rot_speed", i>>,
                           <<"gen_speed", i>>>>
    /\ pc' = "call"
    /\ UNCHANGED <<err, inputs, locals, bld_pitch, gen_torque, gen_power,
                   stored, released, aero_calls, ctrl_calls>>

\* (mutant) a controller fault is caught and the step goes on.
CallController_Swallow ==
    /\ UNCHANGED rtvars
    /\ pc = "call"
    /\ LET args == [step |-> i, t |-> Get(t_array, i), dt |-> dt,
                    pitch |-> Get(bld_pitch, i - 1),
                    genspeed |-> Get(gen_speed, i),
                    rotspeed |-> Get(rot_speed, i), ws |-> ws]
       IN  \E r \in call_controller(args.t, args.dt, args.pitch,
                                    args.genspeed, args.rotspeed, args.ws) :
             /\ ctrl_calls' = Append(ctrl_calls, [call |-> args, reply |-> r])
             /\ IF r.status # 0
                THEN /\ trace' = Append(trace, <<"call_controller", i>>)
                     /\ UNCHANGED <<gen_torque, bld_pitch>>
                ELSE /\ gen_torque' = Put(gen_torque, i, r.torque)
                     /\ bld_pitch' = Put(bld_pitch, i, r.pitch)
                     /\ trace' = trace \o <<<<"call_controller", i>>,
                                            <<"gen_torque", i>>,
                                            <<"bld_pitch", i>>>>
             /\ pc' = "power"
             /\ err' = err
    /\ UNCHANGED <<inputs, locals, rot_speed, gen_speed, aero_torque,
                   gen_power, stored, released, aero_calls>>

\* Line 108: the controller is called; what it commands is written at i.
\* Nothing catches what call_controller raises.
CallController ==
    /\ UNCHANGED rtvars
    /\ pc = "call"
    /\ LET args == [step |-> i, t |-> Get(t_array, i), dt |-> dt,
                    pitch |-> Get(bld_pitch, i - 1),
                    genspeed |-> Get(gen_speed, i),
                    rotspeed |-> Get(rot_speed, i), ws |-> ws]
       IN  \E r \in call_controller(args.t, args.dt, args.pitch,
                                    args.genspeed, args.rotspeed, args.ws) :
             /\ ctrl_calls' = Append(ctrl_calls, [call |-> args, reply |-> r])
             /\ IF r.status # 0
                THEN /\ Raise("ControllerFaultError")
                     /\ trace' = Append(trace, <<"call_controller", i>>)
                     /\ UNCHANGED <<gen_torque, bld_pitch>>
                ELSE /\ gen_torque' = Put(gen_torque, i, r.torque)
                     /\ bld_pitch' = Put(bld_pitch, i, r.pitch)
                     /\ trace' = trace \o <<<<"call_controller", i>>,
                                            <<"gen_torque", i>>,
                                            <<"bld_pitch", i>>>>
                     /\ pc' = "power"
                     /\ err' = err
    /\ UNCHANGED <<inputs, locals, rot_speed, gen_speed, aero_torque,
                   gen_power, stored, released, aero_calls>>

\* Line 111, and the end of the loop body.
CalcPower ==
    /\ UNCHANGED rtvars
    /\ pc = "power"
    /\ gen_power' = Put(gen_power, i,
                        GenPower(Get(gen_speed, i), Get(gen_torque, i)))
    /\ trace' = Append(trace, <<"gen_power", i>>)
    /\ i' = i + 1
    /\ pc' = "loop"
    /\ UNCHANGED <<err, inputs, dt, use_interpolated, ws, cq, bld_pitch,
                   rot_speed, gen_speed, aero_torque, gen_torque, stored,
                   released, aero_calls, ctrl_calls>>

\* Lines 114-121: the series become attributes of self, and the run returns
\* (the plots of lines 123-141 change none of this).
SaveValues ==
    /\ UNCHANGED rtvars
    /\ pc = "save"
    /\ stored' = [saved |-> TRUE, bld_pitch |-> bld_pitch,
                  rot_speed |-> rot_speed, gen_speed |-> gen_speed,
                  aero_torque |-> aero_torque, gen_torque |-> gen_torque,
                  gen_power |-> gen_power, t_array |-> t_array,
                  ws_array |-> ws_array]
    /\ pc' = "done"
    /\ UNCHANGED <<err, inputs, locals, series, released, logs>>


\* ------------------------------------------------------------ run_Testing.py
\* Strings that are lowered are sequences of characters.
UpperCase ==
    <<"A", "B", "C", "D", "E", "F", "G", "H", "I", "J", "K", "L", "M",
      "N", "O", "P", "Q", "R", "S", "T", "U", "V", "W", "X", "Y", "Z">>
LowerCase ==
    <<"a", "b", "c", "d", "e", "f", "g", "h", "i", "j", "k", "l", "m",
      "n", "o", "p", "q", "r", "s", "t", "u", "v", "w", "x", "y", "z">>
\* str.lower()
LowerChar(c) ==
    IF \E k \in DOMAIN UpperCase : UpperCase[k] = c
    THEN LowerCase[CHOOSE k \in DOMAIN UpperCase : UpperCase[k] = c]
    ELSE c
lower(str) == [k \in DOMAIN str |-> LowerChar(str[k])]

lite == <<"l", "i", "t", "e">>
heavy == <<"h", "e", "a", "v", "y">>
binary_comp == <<"b", "i", "n", "a", "r", "y", "-", "c", "o", "m", "p">>
discon_comp == <<"d", "i", "s", "c", "o", "n", "-", "c", "o", "m", "p">>

TestTypes ==
    {lite, heavy, binary_comp, discon_comp,
     <<"L", "i", "t", "e">>, <<"H", "E", "A", "V", "Y">>,
     <<"B", "i", "n", "a", "r", "y", "-", "C", "o", "m", "p">>,
     <<"D", "I", "S", "C", "O", "N", "-", "C", "O", "M", "P">>,
     <<"l", "i", "g", "h", "t">>, <<>>}
Turbines == {"NREL-5MW", "IEA-15MW", "nrel-5mw", "DTU-10MW"}
\* Lists of n paths, the k-th path written <<kind, k>>.
FileLists(kind) == {[k \in 1 .. n |-> <<kind, k>>] : n \in 0 .. MaxFiles}
Routines ==
    {"ROSCO_Test_lite", "ROSCO_Test_heavy", "ROSCO_Controller_Comp",
     "ROSCO_DISCON_Comp"}

\* Line 37 has run: rt is constructed, nothing is set on it.
RTInit ==
    /\ rt_pc = "check" /\ rt_err = "none"
    /\ turbine2test \in Turbines
    /\ testtype \in TestTypes
    /\ rosco_binaries \in FileLists("libdiscon")
    /\ discon_files \in FileLists("DISCON.IN")
    /\ rt = [Turbine_Class |-> "", Turbulence_Class |-> "",
             FAST_InputFile |-> "", rosco_path |-> <<>>]
    /\ invoked = <<>>

\* No call of run_testing.
RTIdle ==
    /\ rt_pc = "idle" /\ rt_err = "none"
    /\ turbine2test = "" /\ testtype = <<>>
    /\ rosco_binaries = <<>> /\ discon_files = <<>>
    /\ rt = [Turbine_Class |-> "", Turbulence_Class |-> "",
             FAST_InputFile |-> "", rosco_path |-> <<>>]
    /\ invoked = <<>>

RTRaise(e) ==
    /\ rt_pc' = "raised"
    /\ rt_err' = e

\* Lines 46-50
CheckInputs ==
    /\ UNCHANGED simvars
    /\ rt_pc = "check"
    /\ IF lower(testtype) = binary_comp /\ Len(rosco_binaries) < 2
       THEN RTRaise("ValueError")
       ELSE IF lower(testtype) = discon_comp /\ Len(discon_files) < 2
            THEN RTRaise("ValueError")
            ELSE rt_pc' = "turbine" /\ rt_err' = rt_err
    /\ UNCHANGED <<turbine2test, testtype, rosco_binaries, discon_files, rt,
                   invoked>>

\* Lines 52-64
SetupTurbine ==
    /\ UNCHANGED simvars
    /\ rt_pc = "turbine"
    /\ IF turbine2test = "NREL-5MW"
       THEN /\ rt' = [rt EXCEPT !.Turbine_Class = "I",
                                !.Turbulence_Class = "A",
                                !.FAST_InputFile = "NREL-5MW.fst"]
            /\ rt_pc' = "run" /\ rt_err' = rt_err
       ELSE IF turbine2test = "IEA-15MW"
            THEN /\ rt' = [rt EXCEPT !.Turbine_Class = "I",
                                     !.Turbulence_Class = "B",
                                     !.FAST_InputFile =
                                         "IEA-15-240-RWT-UMaineSemi.fst"]
                 /\ rt_pc' = "run" /\ rt_err' = rt_err
            ELSE /\ RTRaise("ValueError")
                 /\ rt' = rt
    /\ UNCHANGED <<turbine2test, testtype, rosco_binaries, discon_files,
                   invoked>>

\* Lines 66-78: rosco_binaries[0] raises IndexError on an empty list.
RunTest ==
    /\ UNCHANGED simvars
    /\ rt_pc = "run"
    /\ LET tt == lower(testtype)
           first(routine) ==
               IF Len(rosco_binaries) = 0
               THEN /\ RTRaise("IndexError")
                    /\ UNCHANGED <<rt, invoked>>
               ELSE /\ rt' = [rt EXCEPT !.rosco_path = <<rosco_binaries[1]>>]
                    /\ invoked' = Append(invoked, routine)
                    /\ rt_pc' = "done" /\ rt_err' = rt_err
           comp(routine) ==
               /\ invoked' = Append(invoked, routine)
               /\ rt_pc' = "done" /\ rt_err' = rt_err
               /\ rt' = rt
       IN  IF tt = lite THEN first("ROSCO_Test_lite")
           ELSE IF tt = heavy THEN first("ROSCO_Test_heavy")
           ELSE IF tt = binary_comp THEN comp("ROSCO_Controller_Comp")
           ELSE IF tt = discon_comp THEN comp("ROSCO_DISCON_Comp")
           ELSE /\ RTRaise("ValueError")
                /\ UNCHANGED <<rt, invoked>>
    /\ UNCHANGED <<turbine2test, testtype, rosco_binaries, discon_files>>

Init == SimInit /\ RTIdle
Next ==
    \/ Setup
    \/ TestCcBlade
    \/ LoopHead
    \/ LoadCq
    \/ UpdateState
    \/ CallController
    \/ CalcPower
    \/ SaveValues
Spec == Init /\ [][Next]_vars


InitRT == SimIdle /\ RTInit
NextRT ==
    \/ CheckInputs
    \/ SetupTurbine
    \/ RunTest
SpecRT == InitRT /\ [][NextRT]_vars

\* ============================================================ properties
N == Length(t_array)
\* The output arrays exist: lines 61-72 have run.
Declared == pc \notin {"setup", "idle"} /\ N >= 2
Ended == pc \in {"done", "raised"}
Steps == 1 .. N - 1
\* What one loop iteration does at index k, in the order of lines 89-111.
StepEvents(k) ==
    <<<<"cq", k>>, <<"aero_torque", k>>, <<"rot_speed", k>>,
      <<"gen_speed", k>>, <<"call_controller", k>>, <<"gen_torque", k>>,
      <<"bld_pitch", k>>, <<"gen_power", k>>>>
Occurs(e) == {k \in 1 .. Len(trace) : trace[k] = e}
Pos(e) == CHOOSE k \in Occurs(e) : TRUE
TrialCalls == {k \in 1 .. Len(aero_calls) : aero_calls[k].step = 0}
StepCalls(j) == {k \in 1 .. Len(aero_calls) : aero_calls[k].step = j}
\* The try block of lines 76-79 raised (in the evaluator, or before it).
TrialRaised == \A k \in TrialCalls : aero_calls[k].raised
ZeroWind == \E k \in DOMAIN ws_array : ws_array[k] = 0

\* C1: once declared, each of the six series has the length of the time
\* array, its index 0 holds the value it was initialised with, no array
\* write of the loop is at index 0, and the series saved at the end of the
\* run are these.
C1_LengthAndIndexZero ==
    Declared =>
      /\ \A a \in {bld_pitch, rot_speed, gen_speed, aero_torque, gen_torque,
                   gen_power} : DOMAIN a = 0 .. N - 1
      /\ bld_pitch[0] = init_pitch
      /\ rot_speed[0] = FxMul(rotor_rpm_init, rpm2RadSec)
      /\ gen_speed[0] = FxMul(rotor_rpm_init, turbine.Ng)
      /\ aero_torque[0] = Fx(1000)
      /\ gen_torque[0] = Fx(1)
      /\ gen_power[0] = Fx(0)
      /\ \A k \in 1 .. Len(trace) : trace[k][2] # 0
      /\ pc = "done" =>
           /\ stored.saved
           /\ stored.bld_pitch = bld_pitch /\ stored.rot_speed = rot_speed
           /\ stored.gen_speed = gen_speed
           /\ stored.aero_torque = aero_torque
           /\ stored.gen_torque = gen_torque /\ stored.gen_power = gen_power
C1_Witness ==
    /\ pc = "done" /\ N >= 3
    /\ bld_pitch[1] # init_pitch /\ rot_speed[2] # rot_speed[0]

\* C2: at every index of the series, generator speed is rotor speed times
\* the gearbox ratio.
C2_GenSpeedIsRotSpeedTimesNg ==
    Declared =>
      \A k \in DOMAIN gen_speed : gen_speed[k] = FxMul(rot_speed[k], turbine.Ng)
\* C2, at the indices the loop has written.
C2_Witness ==
    /\ pc = "done" /\ N >= 3
    /\ \A k \in Steps : gen_speed[k] = FxMul(rot_speed[k], turbine.Ng)
    /\ gen_speed[0] # FxMul(rot_speed[0], turbine.Ng)

\* C3: a call on which the controller reports a nonzero status is the last
\* thing the run does: it has ended with ControllerFaultError at that step,
\* no later call or array write follows, and no series has been saved.
C3_FaultAborts ==
    \A k \in 1 .. Len(ctrl_calls) :
      ctrl_calls[k].reply.status # 0 =>
        /\ k = Len(ctrl_calls)
        /\ pc = "raised" /\ err = "ControllerFaultError"
        /\ i = ctrl_calls[k].call.step
        /\ trace[Len(trace)] = <<"call_controller", i>>
        /\ ~stored.saved
C3_Witness ==
    /\ pc = "raised" /\ err = "ControllerFaultError"
    /\ Len(ctrl_calls) = 2
    /\ ctrl_calls[1].reply.status = 0 /\ ctrl_calls[2].reply.status # 0

\* C4: the evaluator is tried at most once before the loop; after that
\* use_interpolated says whether the trial raised and keeps saying so, and
\* every step makes exactly one aerodynamic call, to the interpolated surface
\* when the trial raised and to the evaluator when it did not.
C4_SourceSelectedOnce ==
    /\ Cardinality(TrialCalls) <= 1
    /\ pc \notin {"setup", "test_cc", "idle"} /\ N >= 2 =>
         /\ use_interpolated = TrialRaised
         /\ \A k \in 1 .. Len(aero_calls) :
              aero_calls[k].step # 0 =>
                /\ aero_calls[k].op =
                     IF TrialRaised THEN "interp_surface" ELSE "evaluate"
                /\ Cardinality(StepCalls(aero_calls[k].step)) = 1
C4_Witness ==
    /\ pc = "done" /\ N >= 3
    /\ Cardinality(TrialCalls) = 1 /\ TrialRaised
    /\ \A j \in Steps : \E k \in StepCalls(j) :
         aero_calls[k].op = "interp_surface"

\* C5: when the wind array holds a zero, no tip speed ratio is computed with
\* a zero wind speed and the run does not complete.
C5_ZeroWindRejected ==
    ZeroWind =>
      /\ \A k \in 1 .. Len(aero_calls) :
           aero_calls[k].op = "interp_surface" => aero_calls[k].ws # 0
      /\ pc # "done"

\* C6: the loop's array writes and calls happen in the order of StepEvents,
\* index after index; the aerodynamic call of index k is given the pitch and
\* rotor speed of index k-1 and the wind speed of index k; the torque and the
\* speeds of index k are those of lines 103-105 from the values of index k-1;
\* the controller is given the speeds of index k and the pitch of index k-1,
\* and what it commands is what is written at index k.
C6_StepOrderAndLag ==
    Declared =>
      /\ \A k \in 1 .. Len(trace) :
           trace[k] = StepEvents(((k - 1) \div 8) + 1)[((k - 1) % 8) + 1]
      /\ \A k \in 1 .. Len(aero_calls) :
           LET c == aero_calls[k]
           IN  c.step # 0 =>
                 /\ c.pitch = bld_pitch[c.step - 1]
                 /\ c.rot = IF c.op = "evaluate"
                            THEN FxDiv(rot_speed[c.step - 1], rpm2RadSec)
                            ELSE rot_speed[c.step - 1]
                 /\ c.ws = ws_array[c.step]
                 /\ Occurs(<<"gen_speed", c.step>>) # {} =>
                      /\ aero_torque[c.step] = AeroTorque(c.cq, ws_array[c.step])
                      /\ rot_speed[c.step] =
                           RotSpeedNext(rot_speed[c.step - 1],
                                        aero_torque[c.step],
                                        gen_torque[c.step - 1],
                                        t_array[1] - t_array[0])
                      /\ gen_speed[c.step] = GenSpeed(rot_speed[c.step])
      /\ \A k \in 1 .. Len(ctrl_calls) :
           LET c == ctrl_calls[k].call
               r == ctrl_calls[k].reply
           IN  /\ c.genspeed = gen_speed[c.step]
               /\ c.rotspeed = rot_speed[c.step]
               /\ c.pitch = bld_pitch[c.step - 1]
               /\ c.ws = ws_array[c.step]
               /\ r.status = 0 =>
                    /\ gen_torque[c.step] = r.torque
                    /\ bld_pitch[c.step] = r.pitch
C6_Witness ==
    /\ pc = "done" /\ N >= 3
    /\ Len(ctrl_calls) >= 2
    /\ ctrl_calls[2].call.pitch # init_pitch
    /\ ctrl_calls[2].call.pitch = ctrl_calls[1].reply.pitch
    /\ gen_torque[1] # gen_torque[0]
    /\ gen_torque[1] # gen_torque[2]

\* C7: a run whose time and wind arrays differ in length does not complete
\* and saves no series.
C7_MismatchedLengthsRejected ==
    N # Length(ws_array) => pc # "done" /\ ~stored.saved

\* C8: a run that has called the controller and has ended, by returning or
\* by raising, has released the controller handle exactly once; while it
\* runs it has not released it.
C8_HandleReleasedOnce ==
    /\ Ended /\ Len(ctrl_calls) >= 1 => released = 1
    /\ ~Ended => released = 0

\* C9: a completed run has called the controller N-1 times, the k-th call
\* for index k with the time t_array[k], after the write of gen_speed[k] and
\* before the write of gen_power[k], each of which happens once.
C9_ControllerCalledOncePerIndex ==
    pc = "done" =>
      /\ Len(ctrl_calls) = N - 1
      /\ \A k \in Steps :
           /\ ctrl_calls[k].call.step = k
           /\ ctrl_calls[k].call.t = t_array[k]
           /\ Cardinality(Occurs(<<"gen_speed", k>>)) = 1
           /\ Cardinality(Occurs(<<"call_controller", k>>)) = 1
           /\ Cardinality(Occurs(<<"gen_power", k>>)) = 1
           /\ Pos(<<"gen_speed", k>>) < Pos(<<"call_controller", k>>)
           /\ Pos(<<"call_controller", k>>) < Pos(<<"gen_power", k>>)
      /\ Occurs(<<"call_controller", 0>>) = {}
C9_Witness ==
    /\ pc = "done" /\ N >= 3
    /\ Len(ctrl_calls) = N - 1
    /\ ctrl_calls[2].call.t = t_array[2] /\ t_array[2] # Fx(2)

\* C10: run_testing ends either having invoked exactly one of the four
\* routines, or with ValueError having invoked none; with ValueError for
\* binary-comp with fewer than two binaries, for discon-comp with fewer than
\* two DISCON files, for a turbine that is neither NREL-5MW nor IEA-15MW and
\* for a test type that, lowered, is none of the four.
C10_OneRoutineOrValueError ==
    rt_pc \in {"done", "raised"} =>
      /\ \/ rt_pc = "done" /\ Len(invoked) = 1 /\ invoked[1] \in Routines
         \/ rt_pc = "raised" /\ rt_err = "ValueError" /\ invoked = <<>>
      /\ (\/ lower(testtype) = binary_comp /\ Len(rosco_binaries) < 2
          \/ lower(testtype) = discon_comp /\ Len(discon_files) < 2
          \/ turbine2test \notin {"NREL-5MW", "IEA-15MW"}
          \/ lower(testtype) \notin {lite, heavy, binary_comp, discon_comp})
           => rt_pc = "raised" /\ rt_err = "ValueError"


====
